---- MODULE Spec2Model ----
(***************************************************************************)
(* yarpl Single operators (yarpl/single/SingleOperator.h): the operator    *)
(* subscription ("Bridge") between two pipeline stages, the map operator   *)
(* and the fromPublisher source adapter.                                   *)
(*                                                                         *)
(* A pipeline is a FromPublisherOperator (stage 0, the source) with map    *)
(* stages 1..n built over it.  Every handler of the header is a small      *)
(* step function on a call stack, one step per statement; the sequential   *)
(* specifications run a call to completion in one action (Run), the        *)
(* concurrent one interleaves the steps of two threads.                    *)
(***************************************************************************)
EXTENDS Integers, Sequences, FiniteSets, TLC

\* ---------------------------------------------------------------- bounds
MaxStages == 2
MaxVal == 1
MaxErr == 1
MaxCalls == 3
MaxSubs == 2
MaxTwoCalls == 2

Vals == 0..MaxVal
Errs == 0..MaxErr
Subs == 1..MaxSubs

\* The transformation functions a map stage may be built with (F function_):
\* a bijection without fixed point and a constant; they do not commute.
Inc == [x \in Vals |-> (x + 1) % (MaxVal + 1)]
Zero == [x \in Vals |-> 0]
Fns == {Inc, Zero}

\* x -> g(f(x))
Compose(f, g) == [x \in Vals |-> g[f[x]]]

\* ------------------------------------------------------------ identities
\* An empty Reference<T>.
Null == -1
\* The source stage (FromPublisherOperator) and the handle its callback
\* passes to onSubscribe.
Source == 0
\* The user-supplied SingleObserver at the end of the pipeline.
FinalObserver == -2

\* The two threads of a subscription: the upstream producer's and the
\* downstream consumer's.
Threads == {"P", "C"}

\* What the final observer does inside its callbacks: nothing, or call
\* cancel() on the handle it holds.
Kinds == {"plain", "reentrant"}

\* What a build can do on a call through an empty Reference.
UBOutcomes == {"crash", "skip"}

VARIABLES
  upstream_,     \* [stage -> stage]: Reference<Single<U>> upstream_ of each map stage
  function_,     \* [stage -> Fns]: F function_ of each map stage
  bridges,       \* [sub -> [stage -> SingleSubscription fields]]
  kind,          \* [sub -> Kinds \cup {"none"}]: the final observer's behaviour
  target,        \* [sub -> stage]: the stage the final observer subscribed to
  conLog,        \* [sub -> Seq]: the calls the final observer received
  conHandle,     \* [sub -> handle]: the handle the final observer holds
  cbCalls,       \* [sub -> Seq]: the observers the source callback was invoked with
  srcCancels,    \* [sub -> Nat]: cancel() calls that reached the source's handle
  trace,         \* [sub -> Seq]: every method entry and field write, in order
  stack,         \* [sub -> [Threads -> Seq(frame)]]: the call stacks
  nullDeref,     \* [sub -> BOOLEAN]: a call went through an empty Reference
  crashed,       \* the process died
  calls,         \* [sub -> Seq]: the calls the environment made, in order
  dropped        \* [sub -> SUBSET Threads]: who has released its own Reference

vars == <<upstream_, function_, bridges, kind, target, conLog, conHandle,
          cbCalls, srcCancels, trace, stack, nullDeref, crashed, calls,
          dropped>>

Stages == DOMAIN upstream_

\* SingleSubscription's fields before construction.
NoBridge == [flowable_ |-> Null, subscriber_ |-> Null, upstreamSubscription_ |-> Null]

\* The stages nothing is built over: where a final observer subscribes.
Sinks == {k \in Stages \cup {Source} : \A j \in Stages : upstream_[j] # k}

\* ------------------------------------------------------------ the machine
\* One subscription's state, threaded through the handlers.
Mach(s) ==
  [b |-> bridges[s], kind |-> kind[s], log |-> conLog[s],
   handle |-> conHandle[s], cb |-> cbCalls[s], cancels |-> srcCancels[s],
   trace |-> trace[s], stack |-> stack[s], nullDeref |-> nullDeref[s],
   crashed |-> crashed]

Top(M, t) == M.stack[t][Len(M.stack[t])]

Return(M, t) == [M EXCEPT !.stack[t] = SubSeq(@, 1, Len(@) - 1)]

Goto(M, t, pc) == [M EXCEPT !.stack[t][Len(M.stack[t])].pc = pc]

Invoke(M, t, m, o, a) ==
  [M EXCEPT !.stack[t] = Append(@, [m |-> m, o |-> o, a |-> a, pc |-> 0])]

Emit(M, ev) == [M EXCEPT !.trace = Append(@, ev)]

\* A call through an empty Reference: undefined behaviour.
NullCall(M, t, ub) ==
  IF ub = "crash"
    THEN [M EXCEPT !.nullDeref = TRUE, !.crashed = TRUE]
    ELSE Return([M EXCEPT !.nullDeref = TRUE], t)

\* Mutant: the Bridge is subscribed upstream twice.
MapOperator_subscribe_twice(M, t) ==
  LET f == Top(M, t)
      k == f.o
  IN  IF f.pc = 0
        THEN Invoke(
               Goto(Emit([M EXCEPT !.b[k] = [flowable_ |-> k,
                                            subscriber_ |-> f.a,
                                            upstreamSubscription_ |-> Null]],
                         <<"new", k, f.a>>), t, 1),
               t, "subscribe", upstream_[k], k)
        ELSE IF f.pc = 1
               THEN Invoke(Goto(M, t, 2), t, "subscribe", upstream_[k], k)
               ELSE Return(M, t)

\* Mutant: the downstream subscriber, not the Bridge, is subscribed upstream.
MapOperator_subscribe_bypass(M, t) ==
  LET f == Top(M, t)
      k == f.o
  IN  IF f.pc = 0
        THEN Invoke(
               Goto(Emit([M EXCEPT !.b[k] = [flowable_ |-> k,
                                            subscriber_ |-> f.a,
                                            upstreamSubscription_ |-> Null]],
                         <<"new", k, f.a>>), t, 1),
               t, "subscribe", upstream_[k], f.a)
        ELSE Return(M, t)

\* MapOperator::subscribe: build the Bridge, subscribe it upstream.
MapOperator_subscribe(M, t) ==
  LET f == Top(M, t)
      k == f.o
  IN  IF f.pc = 0
        THEN Invoke(
               Goto(Emit([M EXCEPT !.b[k] = [flowable_ |-> k,
                                            subscriber_ |-> f.a,
                                            upstreamSubscription_ |-> Null]],
                         <<"new", k, f.a>>), t, 1),
               t, "subscribe", upstream_[k], k)
        ELSE Return(M, t)

\* Mutant: the adapter also calls onSubscribe on the subscriber itself.
FromPublisherOperator_subscribe_calls(M, t) ==
  LET f == Top(M, t)
  IN  IF f.pc = 0
        THEN Invoke(Goto(Emit([M EXCEPT !.cb = Append(@, f.a)],
                              <<"callback", Source, f.a>>), t, 1),
                    t, "onSubscribe", f.a, Source)
        ELSE Return(M, t)

\* FromPublisherOperator::subscribe: function_(std::move(subscriber)).
FromPublisherOperator_subscribe(M, t) ==
  LET f == Top(M, t)
  IN  Return(Emit([M EXCEPT !.cb = Append(@, f.a)], <<"callback", Source, f.a>>), t)

\* Mutant: the handle is stored but the subscriber is not told.
onSubscribe_silent(M, t) ==
  LET f == Top(M, t)
      k == f.o
  IN  Return(Emit([M EXCEPT !.b[k].upstreamSubscription_ = f.a],
                  <<"store", k, f.a>>), t)

\* Mutant: the subscriber is told first, the handle is stored afterwards.
onSubscribe_late(M, t) ==
  LET f == Top(M, t)
      k == f.o
  IN  IF f.pc = 0
        THEN Invoke(Goto(M, t, 1), t, "onSubscribe", M.b[k].subscriber_, k)
        ELSE Return(Emit([M EXCEPT !.b[k].upstreamSubscription_ = f.a],
                         <<"store", k, f.a>>), t)

\* SingleOperator::SingleSubscription::onSubscribe
onSubscribe(M, t) ==
  LET f == Top(M, t)
      k == f.o
  IN  IF f.pc = 0
        THEN Invoke(
               Goto(Emit([M EXCEPT !.b[k].upstreamSubscription_ = f.a],
                         <<"store", k, f.a>>), t, 1),
               t, "onSubscribe", M.b[k].subscriber_, k)
        ELSE Return(M, t)

\* Mutant: the error is not forwarded; the handle is reset.
onError_dropped(M, t) ==
  LET f == Top(M, t)
      k == f.o
  IN  Return(Emit([M EXCEPT !.b[k].upstreamSubscription_ = Null],
                  <<"reset", k, 0>>), t)

\* Mutant: a default-constructed exception_ptr is forwarded instead of error.
onError_replaced(M, t) ==
  LET f == Top(M, t)
      k == f.o
  IN  IF f.pc = 0
        THEN Invoke(Goto(M, t, 1), t, "onError", M.b[k].subscriber_, 0)
        ELSE Return(Emit([M EXCEPT !.b[k].upstreamSubscription_ = Null],
                         <<"reset", k, 0>>), t)

\* Mutant: the upstream handle is kept after the error was forwarded.
onError_keeps(M, t) ==
  LET f == Top(M, t)
      k == f.o
  IN  IF f.pc = 0
        THEN Invoke(Goto(M, t, 1), t, "onError", M.b[k].subscriber_, f.a)
        ELSE Return(M, t)

\* SingleOperator::SingleSubscription::onError
onError(M, t) ==
  LET f == Top(M, t)
      k == f.o
  IN  IF f.pc = 0
        THEN Invoke(Goto(M, t, 1), t, "onError", M.b[k].subscriber_, f.a)
        ELSE Return(Emit([M EXCEPT !.b[k].upstreamSubscription_ = Null],
                         <<"reset", k, 0>>), t)

\* Mutant: the value is passed on untransformed.
onSuccess_unmapped(M, t) ==
  LET f == Top(M, t)
      k == f.o
  IN  IF f.pc = 0
        THEN Invoke(Goto(M, t, 1), t, "onSuccess", M.b[k].subscriber_, f.a)
        ELSE Return(Emit([M EXCEPT !.b[k].upstreamSubscription_ = Null],
                         <<"reset", k, 0>>), t)

\* Mutant: only the Bridge next to the final observer applies its function.
onSuccess_lastOnly(M, t) ==
  LET f == Top(M, t)
      k == f.o
      map == M.b[k].flowable_
  IN  IF f.pc = 0
        THEN Invoke(Goto(Emit(M, <<"apply", k, f.a>>), t, 1),
                    t, "onSuccess", M.b[k].subscriber_,
                    IF M.b[k].subscriber_ = FinalObserver
                      THEN function_[map][f.a] ELSE f.a)
        ELSE Return(Emit([M EXCEPT !.b[k].upstreamSubscription_ = Null],
                         <<"reset", k, 0>>), t)

\* MapOperator::SingleSubscription::onSuccess
onSuccess(M, t) ==
  LET f == Top(M, t)
      k == f.o
      map == M.b[k].flowable_
  IN  IF f.pc = 0
        THEN Invoke(Goto(Emit(M, <<"apply", k, f.a>>), t, 1),
                    t, "onSuccess", M.b[k].subscriber_, function_[map][f.a])
        ELSE Return(Emit([M EXCEPT !.b[k].upstreamSubscription_ = Null],
                         <<"reset", k, 0>>), t)

\* Mutant: cancel() returns without forwarding.
cancel_swallow(M, t, ub) == Return(M, t)

\* Mutant: after forwarding, cancel() drops the handle and reports an error to
\* the subscriber.
cancel_notifies(M, t, ub) ==
  LET f == Top(M, t)
      k == f.o
      h == M.b[k].upstreamSubscription_
  IN  IF f.pc = 0
        THEN IF h = Null
               THEN NullCall(M, t, ub)
               ELSE Invoke(Goto(M, t, 1), t, "cancel", h, 0)
        ELSE IF f.pc = 1
               THEN Invoke(Goto([M EXCEPT !.b[k].upstreamSubscription_ = Null], t, 2),
                           t, "onError", M.b[k].subscriber_, 1)
               ELSE Return(M, t)

\* SingleOperator::SingleSubscription::cancel
cancel(M, t, ub) ==
  LET f == Top(M, t)
      k == f.o
      h == M.b[k].upstreamSubscription_
  IN  IF f.pc = 0
        THEN IF h = Null
               THEN NullCall(M, t, ub)
               ELSE Invoke(Goto(M, t, 1), t, "cancel", h, 0)
        ELSE Return(M, t)

\* The source's handle: cancel() is recorded.
Source_cancel(M, t) == Return([M EXCEPT !.cancels = @ + 1], t)

\* The final observer's onSubscribe: keeps the handle.
Observer_onSubscribe(M, t) ==
  LET f == Top(M, t)
      M1 == [M EXCEPT !.log = Append(@, <<f.m, f.a>>), !.handle = f.a]
  IN  IF f.pc = 0
        THEN IF M.kind = "reentrant"
               THEN Invoke(Goto(M1, t, 1), t, "cancel", f.a, 0)
               ELSE Return(M1, t)
        ELSE Return(M, t)

\* The final observer's onSuccess / onError.
Observer_onTerminal(M, t) ==
  LET f == Top(M, t)
      M1 == [M EXCEPT !.log = Append(@, <<f.m, f.a>>)]
  IN  IF f.pc = 0
        THEN IF M.kind = "reentrant" /\ M.handle # Null
               THEN Invoke(Goto(M1, t, 1), t, "cancel", M.handle, 0)
               ELSE Return(M1, t)
        ELSE Return(M, t)

\* Virtual dispatch of the frame on top of thread t's stack.
Dispatch(M, t, ub) ==
  LET f == Top(M, t)
  IN  CASE f.m = "subscribe" /\ f.o = Source -> FromPublisherOperator_subscribe(M, t)
        [] f.m = "subscribe" /\ f.o # Source -> MapOperator_subscribe(M, t)
        [] f.m = "cancel" /\ f.o = Source -> Source_cancel(M, t)
        [] f.m = "cancel" /\ f.o # Source -> cancel(M, t, ub)
        [] f.m = "onSubscribe" /\ f.o = FinalObserver -> Observer_onSubscribe(M, t)
        [] f.m = "onSubscribe" /\ f.o # FinalObserver -> onSubscribe(M, t)
        [] f.m = "onSuccess" /\ f.o = FinalObserver -> Observer_onTerminal(M, t)
        [] f.m = "onSuccess" /\ f.o # FinalObserver -> onSuccess(M, t)
        [] f.m = "onError" /\ f.o = FinalObserver -> Observer_onTerminal(M, t)
        [] f.m = "onError" /\ f.o # FinalObserver -> onError(M, t)

\* One step of thread t; a method's entry is recorded in the trace.
Step(M, t, ub) ==
  LET f == Top(M, t)
  IN  Dispatch(IF f.pc = 0 THEN Emit(M, <<f.m, f.o, f.a>>) ELSE M, t, ub)

RECURSIVE Run(_, _, _)
\* Thread t runs until its call has returned (or the process died).
Run(M, t, ub) ==
  IF M.stack[t] = <<>> \/ M.crashed THEN M ELSE Run(Step(M, t, ub), t, ub)

\* The state of the subscriptions S becomes R[s]; the others keep theirs.
Commit(S, R) ==
  /\ bridges' = [s \in Subs |-> IF s \in S THEN R[s].b ELSE bridges[s]]
  /\ conLog' = [s \in Subs |-> IF s \in S THEN R[s].log ELSE conLog[s]]
  /\ conHandle' = [s \in Subs |-> IF s \in S THEN R[s].handle ELSE conHandle[s]]
  /\ cbCalls' = [s \in Subs |-> IF s \in S THEN R[s].cb ELSE cbCalls[s]]
  /\ srcCancels' = [s \in Subs |-> IF s \in S THEN R[s].cancels ELSE srcCancels[s]]
  /\ trace' = [s \in Subs |-> IF s \in S THEN R[s].trace ELSE trace[s]]
  /\ stack' = [s \in Subs |-> IF s \in S THEN R[s].stack ELSE stack[s]]
  /\ nullDeref' = [s \in Subs |-> IF s \in S THEN R[s].nullDeref ELSE nullDeref[s]]
  /\ crashed' = (crashed \/ \E s \in S : R[s].crashed)

\* Thread t of subscription s calls o.m(a): to completion, or only entered.
Call(s, t, m, o, a, ub, run) ==
  IF run THEN Run(Invoke(Mach(s), t, m, o, a), t, ub)
         ELSE Invoke(Mach(s), t, m, o, a)

Record(S, ev) ==
  calls' = [s \in Subs |-> IF s \in S THEN Append(calls[s], ev) ELSE calls[s]]

Idle(s) == \A t \in Threads : stack[s][t] = <<>>

\* The observer the source's callback was given.
srcConsumer(s) == cbCalls[s][1]

\* ---------------------------------------------------------------- actions
\* The final observers of S subscribe, each to a stage tg[s].
Subscribe(S, tg, kd) ==
  /\ ~crashed
  /\ \A s \in S : target[s] = Null /\ Idle(s)
  /\ target' = [s \in Subs |-> IF s \in S THEN tg[s] ELSE target[s]]
  /\ kind' = [s \in Subs |-> IF s \in S THEN kd ELSE kind[s]]
  /\ \E R \in {[s \in S |->
         Run(Invoke([Mach(s) EXCEPT !.kind = kd], "C", "subscribe", tg[s], FinalObserver),
             "C", "skip")]} : Commit(S, R)
  /\ UNCHANGED <<upstream_, function_, calls, dropped>>

\* The source calls m(a) on the observer its callback was given.
SourceCall(S, m, a, ub, run) ==
  /\ ~crashed
  /\ \A s \in S : /\ cbCalls[s] # <<>>
                  /\ "P" \notin dropped[s]
                  /\ Len(calls[s]) < MaxCalls
                  /\ IF run THEN Idle(s) ELSE stack[s]["P"] = <<>>
  /\ \E R \in {[s \in S |-> Call(s, "P", m, srcConsumer(s), a, ub, run)]} : Commit(S, R)
  /\ Record(S, <<m, a>>)
  /\ UNCHANGED <<upstream_, function_, kind, target, dropped>>

\* The final observer calls cancel() on the handle it holds.
ObserverCancel(S, ub, run) ==
  /\ ~crashed
  /\ \A s \in S : /\ conHandle[s] # Null
                  /\ Len(calls[s]) < MaxCalls
                  /\ IF run THEN Idle(s) ELSE stack[s]["C"] = <<>>
  /\ \E R \in {[s \in S |-> Call(s, "C", "cancel", conHandle[s], 0, ub, run)]} : Commit(S, R)
  /\ Record(S, <<"cancel", 0>>)
  /\ UNCHANGED <<upstream_, function_, kind, target, dropped>>

SrcOnSubscribe(S) == \E ub \in UBOutcomes : SourceCall(S, "onSubscribe", Source, ub, TRUE)

SrcOnSuccess(S) ==
  \E v \in Vals, ub \in UBOutcomes : SourceCall(S, "onSuccess", v, ub, TRUE)

SrcOnError(S) ==
  \E e \in Errs, ub \in UBOutcomes : SourceCall(S, "onError", e, ub, TRUE)

Cancel(S) == \E ub \in UBOutcomes : ObserverCancel(S, ub, TRUE)

DoSubscribe(S) == \E tg \in [S -> Sinks], kd \in Kinds : Subscribe(S, tg, kd)

\* ------------------------------------------------------------------ Init
InitSubs ==
  /\ bridges = [s \in Subs |-> [k \in Stages |-> NoBridge]]
  /\ kind = [s \in Subs |-> "none"]
  /\ target = [s \in Subs |-> Null]
  /\ conLog = [s \in Subs |-> <<>>]
  /\ conHandle = [s \in Subs |-> Null]
  /\ cbCalls = [s \in Subs |-> <<>>]
  /\ srcCancels = [s \in Subs |-> 0]
  /\ trace = [s \in Subs |-> <<>>]
  /\ stack = [s \in Subs |-> [t \in Threads |-> <<>>]]
  /\ nullDeref = [s \in Subs |-> FALSE]
  /\ crashed = FALSE
  /\ calls = [s \in Subs |-> <<>>]
  /\ dropped = [s \in Subs |-> {}]

\* source.map(f1)...map(fn), 0 <= n <= MaxStages.
Init ==
  /\ \E n \in 0..MaxStages :
       /\ upstream_ = [k \in 1..n |-> k - 1]
       /\ function_ \in [1..n -> Fns]
  /\ InitSubs

Next ==
  \/ DoSubscribe({1})
  \/ SrcOnSubscribe({1})
  \/ SrcOnSuccess({1})
  \/ SrcOnError({1})
  \/ Cancel({1})

Spec == Init /\ [][Next]_vars

\* ------------------------------------------- two threads, interleaved steps
\* The producer's thread enters a call on the Bridge; its steps follow.
BeginSrcOnSubscribe(s) ==
  \E ub \in UBOutcomes : SourceCall({s}, "onSubscribe", Source, ub, FALSE)

BeginSrcOnSuccess(s) ==
  \E v \in Vals, ub \in UBOutcomes : SourceCall({s}, "onSuccess", v, ub, FALSE)

BeginSrcOnError(s) ==
  \E e \in Errs, ub \in UBOutcomes : SourceCall({s}, "onError", e, ub, FALSE)

\* The consumer's thread enters cancel().
BeginCancel(s) == \E ub \in UBOutcomes : ObserverCancel({s}, ub, FALSE)

\* One statement of thread t.  The fields are plain (non-atomic) members: a
\* read that races with a write sees the value before or after it.
ThreadStep(s, t) ==
  /\ ~crashed
  /\ stack[s][t] # <<>>
  /\ \E ub \in UBOutcomes :
       \E R \in {[x \in {s} |-> Step(Mach(s), t, ub)]} : Commit({s}, R)
  /\ UNCHANGED <<upstream_, function_, kind, target, calls, dropped>>

NextConc ==
  \/ DoSubscribe({1})
  \/ BeginSrcOnSubscribe(1)
  \/ BeginSrcOnSuccess(1)
  \/ BeginSrcOnError(1)
  \/ BeginCancel(1)
  \/ ThreadStep(1, "P")
  \/ ThreadStep(1, "C")

SpecConc == Init /\ [][NextConc]_vars

\* ----------------------------- source.map(f1)...map(fn) beside the fused map
RECURSIVE Fused(_, _)
\* x -> fn(...f1(x)) for the functions fs[1..n].
Fused(fs, n) == IF n = 1 THEN fs[1] ELSE Compose(Fused(fs, n - 1), fs[n])

\* Stages 1..n are the chain; stage n+1 is source.map(x -> fn(...f1(x))).
InitChain ==
  /\ \E n \in 2..MaxStages :
       /\ upstream_ = [k \in 1..(n + 1) |-> IF k = n + 1 THEN Source ELSE k - 1]
       /\ \E fs \in [1..n -> Fns] :
            function_ = [k \in 1..(n + 1) |-> IF k = n + 1 THEN Fused(fs, n) ELSE fs[k]]
  /\ InitSubs

ChainLen == Cardinality(Stages) - 1

\* Observer 1 subscribes to the chain, observer 2 to the fused stage.
ChainTargets == [s \in {1, 2} |-> IF s = 1 THEN ChainLen ELSE ChainLen + 1]

SubscribeBoth == \E kd \in Kinds : Subscribe({1, 2}, ChainTargets, kd)

\* Both subscriptions are driven alike: the same source events, the same
\* observer behaviour.
NextChain ==
  \/ SubscribeBoth
  \/ SrcOnSubscribe({1, 2})
  \/ SrcOnSuccess({1, 2})
  \/ SrcOnError({1, 2})
  \/ Cancel({1, 2})

SpecChain == InitChain /\ [][NextChain]_vars

\* ------------------------------------ two observers subscribed to one stage
\* The calls made on the two subscriptions together stay within MaxTwoCalls.
TwoBudget == Len(calls[1]) + Len(calls[2]) < MaxTwoCalls

\* Observers 1 and 2 subscribe to the same stage, each on its own; the source
\* and the observers drive the two subscriptions independently.
NextTwo ==
  \E s \in {1, 2} :
    \/ DoSubscribe({s})
    \/ TwoBudget /\ SrcOnSubscribe({s})
    \/ TwoBudget /\ SrcOnSuccess({s})
    \/ TwoBudget /\ SrcOnError({s})
    \/ TwoBudget /\ Cancel({s})

SpecTwo == Init /\ [][NextTwo]_vars

\* ------------------------------------------------- references and lifetime
\* The References that keep Bridge k alive: the producer's (it was given k as
\* its observer), the final observer's handle, and the subscriber_ and
\* upstreamSubscription_ fields of the other Bridges.
Refs(M, k, srcHolds) ==
  (IF srcHolds /\ M.cb # <<>> /\ M.cb[1] = k THEN 1 ELSE 0)
  + (IF M.handle = k THEN 1 ELSE 0)
  + Cardinality({j \in DOMAIN M.b : M.b[j].subscriber_ = k})
  + Cardinality({j \in DOMAIN M.b : M.b[j].upstreamSubscription_ = k})

\* ~SingleSubscription: subscriber_.reset(), then the members are destroyed.
SingleSubscription_dtor(M, k) == Emit([M EXCEPT !.b[k] = NoBridge], <<"delete", k, 0>>)

RECURSIVE Release(_, _)
\* Every Bridge whose reference count has reached zero is destroyed; the
\* References it held are released in turn.
Release(M, srcHolds) ==
  LET dead == {k \in DOMAIN M.b : M.b[k].flowable_ # Null /\ Refs(M, k, srcHolds) = 0}
  IN  IF dead = {}
        THEN M
        ELSE Release(SingleSubscription_dtor(M, CHOOSE k \in dead : TRUE), srcHolds)

\* The producer lets go of the observer its callback was given.
SourceDrop(s) ==
  /\ ~crashed
  /\ Idle(s)
  /\ cbCalls[s] # <<>>
  /\ "P" \notin dropped[s]
  /\ dropped' = [dropped EXCEPT ![s] = @ \cup {"P"}]
  /\ \E R \in {[x \in {s} |-> Release(Mach(s), FALSE)]} : Commit({s}, R)
  /\ UNCHANGED <<upstream_, function_, kind, target, calls>>

\* The final observer lets go of the handle it holds.
ObserverDrop(s) ==
  /\ ~crashed
  /\ Idle(s)
  /\ conHandle[s] # Null
  /\ dropped' = [dropped EXCEPT ![s] = @ \cup {"C"}]
  /\ \E R \in {[x \in {s} |->
         Release([Mach(s) EXCEPT !.handle = Null], "P" \notin dropped[s])]} :
       Commit({s}, R)
  /\ UNCHANGED <<upstream_, function_, kind, target, calls>>

NextLife ==
  \/ DoSubscribe({1})
  \/ SrcOnSubscribe({1})
  \/ SrcOnSuccess({1})
  \/ SrcOnError({1})
  \/ Cancel({1})
  \/ SourceDrop(1)
  \/ ObserverDrop(1)

SpecLife == Init /\ [][NextLife]_vars

\* ------------------------------------------------------------ observations
TerminalMethods == {"onSuccess", "onError"}

IsTerminal(e) == e[1] \in TerminalMethods

IsCancel(e) == e[1] = "cancel"

IsSourceCall(e) == e[1] # "cancel"

IsApply(e) == e[1] = "apply"

IsSubscribe(e) == e[1] = "subscribe"

IsNew(e) == e[1] = "new"

\* The terminal events of a log, in order.
Terminals(log) == SelectSeq(log, IsTerminal)

\* The calls the source made on subscription s, the observer's cancels left out.
SourceCalls(s) == SelectSeq(calls[s], IsSourceCall)

\* The observer's cancel() calls on subscription s.
Cancels(s) == Len(SelectSeq(calls[s], IsCancel))

\* The Consumer-contract calls that entered observer o, in order.
ReceivedBy(s, o) ==
  SelectSeq(trace[s],
            LAMBDA e : e[2] = o /\ e[1] \in TerminalMethods \cup {"onSubscribe"})

\* The Bridges subscription s has built.
Built(s) == {k \in Stages : bridges[s][k].flowable_ # Null}

\* The first index of tr whose entry passes Test, Len(tr) + 1 when none does.
FirstIdx(tr, Test(_)) ==
  LET I == {i \in 1..Len(tr) : Test(tr[i])}
  IN  IF I = {} THEN Len(tr) + 1 ELSE CHOOSE i \in I : \A j \in I : i <= j

\* Subscription s is on source.map(f): one map stage over the source.
SingleMap(s) == target[s] \in Stages /\ upstream_[target[s]] = Source

\* The observer of s never cancels and the source has made exactly cs.
Drove(s, cs) == kind[s] = "plain" /\ calls[s] = cs

\* --------------------------------------------------------------- claims
\* C1: on source.map(f), when the source calls onSubscribe and then succeeds
\* with v, the observer receives exactly one terminal event, onSuccess(f(v)),
\* and no onError.
C1_MapSuccess ==
  \A s \in Subs, v \in Vals :
    (SingleMap(s) /\ Drove(s, <<<<"onSubscribe", Source>>, <<"onSuccess", v>>>>))
      => Terminals(conLog[s]) = <<<<"onSuccess", function_[target[s]][v]>>>>

C1_Witness ==
  /\ SingleMap(1)
  /\ Drove(1, <<<<"onSubscribe", Source>>, <<"onSuccess", 1>>>>)
  /\ function_[1] = Inc
  /\ conLog[1] = <<<<"onSubscribe", 1>>, <<"onSuccess", Inc[1]>>>>
  /\ Inc[1] # 1

\* C2: on source.map(f), when the source calls onSubscribe and then fails with
\* e, the observer receives exactly one terminal event, onError(e), no
\* onSuccess, and f is never invoked.
C2_MapError ==
  \A s \in Subs, e \in Errs :
    (SingleMap(s) /\ Drove(s, <<<<"onSubscribe", Source>>, <<"onError", e>>>>))
      => /\ Terminals(conLog[s]) = <<<<"onError", e>>>>
         /\ SelectSeq(trace[s], IsApply) = <<>>

C2_Witness ==
  /\ SingleMap(1)
  /\ Drove(1, <<<<"onSubscribe", Source>>, <<"onError", 1>>>>)
  /\ conLog[1] = <<<<"onSubscribe", 1>>, <<"onError", 1>>>>

\* C3: when the observer calls cancel() on the Bridge after onSubscribe and
\* before the source has emitted, exactly one cancel() reaches the upstream
\* handle and no onSuccess or onError is delivered to the observer afterwards,
\* whatever the source calls later.
C3_CancelBeforeTerminal ==
  \A s \in Subs :
    ( /\ target[s] \in Stages
      /\ kind[s] = "plain"
      /\ Len(calls[s]) >= 2
      /\ calls[s][1] = <<"onSubscribe", Source>>
      /\ calls[s][2] = <<"cancel", 0>>
      /\ Cancels(s) = 1 )
      => /\ srcCancels[s] = 1
         /\ Terminals(conLog[s]) = <<>>

\* C4: whatever calls reach a Bridge, it has delivered at most one terminal
\* event to its downstream observer.
C4_AtMostOneTerminal ==
  \A s \in Subs : \A k \in Built(s) :
    Len(Terminals(ReceivedBy(s, bridges[s][k].subscriber_))) <= 1

\* The producer's terminal call and the observer's cancel() overlapped in time:
\* each was entered before the other had finished.
Overlapped(s) ==
  LET tr == trace[s]
      pBegin == FirstIdx(tr, LAMBDA e : IsTerminal(e) /\ e[2] = srcConsumer(s))
      pEnd == FirstIdx(tr, LAMBDA e : e = <<"reset", srcConsumer(s), 0>>)
      cBegin == FirstIdx(tr, LAMBDA e : e = <<"cancel", conHandle[s], 0>>)
      cEnd == FirstIdx(tr, LAMBDA e : e = <<"cancel", Source, 0>>)
  IN  /\ pBegin <= Len(tr)
      /\ cBegin <= Len(tr)
      /\ pBegin < cEnd
      /\ cBegin < pEnd

\* C5: when one cancel() and one terminal delivery run concurrently on a
\* Bridge, only one of them takes effect: never both a terminal event delivered
\* downstream and cancel() forwarded upstream, and cancel() forwarded at most
\* once.
C5_Arbitration ==
  \A s \in Subs :
    ( /\ target[s] \in Stages
      /\ kind[s] = "plain"
      /\ Len(SourceCalls(s)) = 2
      /\ calls[s][1] = <<"onSubscribe", Source>>
      /\ Cancels(s) = 1
      /\ Overlapped(s) )
      => /\ ~(Terminals(conLog[s]) # <<>> /\ srcCancels[s] >= 1)
         /\ srcCancels[s] <= 1

\* C6: after cancel() on a Bridge has returned, the Bridge holds no upstream
\* handle.
C6_CancelReleases ==
  \A s \in Subs :
    ( /\ target[s] \in Stages
      /\ calls[s] # <<>>
      /\ calls[s][Len(calls[s])] = <<"cancel", 0>>
      /\ Idle(s) )
      => bridges[s][target[s]].upstreamSubscription_ = Null

InContract(s) ==
  /\ kind[s] = "plain"
  /\ Len(calls[s]) <= 2
  /\ Len(calls[s]) >= 1 => calls[s][1] = <<"onSubscribe", Source>>
  /\ Len(calls[s]) = 2 => IsTerminal(calls[s][2])

\* C8: when the source drives the pipeline by the Consumer contract and the
\* observer never cancels, every Bridge drives its subscriber by the same
\* contract: onSubscribe once, with the Bridge as the handle, before the one
\* terminal event, which is of the kind the source delivered.
C8_ProtocolPreserved ==
  \A s \in Subs :
    InContract(s) =>
      \A k \in Built(s) :
        LET got == ReceivedBy(s, bridges[s][k].subscriber_)
        IN  /\ Len(got) = Len(calls[s])
            /\ Len(got) >= 1 => got[1] = <<"onSubscribe", bridges[s][k].subscriber_, k>>
            /\ Len(got) = 2 => got[2][1] = calls[s][2][1]

C8_Witness ==
  /\ target[1] = 2
  /\ InContract(1)
  /\ calls[1] = <<<<"onSubscribe", Source>>, <<"onError", 1>>>>
  /\ conLog[1] = <<<<"onSubscribe", 2>>, <<"onError", 1>>>>
  /\ ReceivedBy(1, 2) = <<<<"onSubscribe", 2, 1>>, <<"onError", 2, 1>>>>

\* What an observer sees of a log: the methods and the values, not the
\* identity of the handle.
Seen(log) == [i \in 1..Len(log) |->
               IF log[i][1] = "onSubscribe" THEN <<"onSubscribe", 0>> ELSE log[i]]

\* C9: driven by onSubscribe and onSuccess(v), the observer of
\* source.map(f1)...map(fn) sees the same calls with the same values as the
\* observer of source.map(x -> fn(...f1(x))): one onSubscribe, then one
\* onSuccess, no onError.
C9_Chaining ==
  \A v \in Vals :
    ( /\ target[1] = ChainLen
      /\ target[2] = ChainLen + 1
      /\ Drove(1, <<<<"onSubscribe", Source>>, <<"onSuccess", v>>>>)
      /\ Drove(2, <<<<"onSubscribe", Source>>, <<"onSuccess", v>>>>) )
      => /\ Seen(conLog[1]) = Seen(conLog[2])
         /\ Len(conLog[1]) = 2
         /\ conLog[1][1][1] = "onSubscribe"
         /\ conLog[1][2][1] = "onSuccess"

C9_Witness ==
  /\ target[1] = ChainLen
  /\ target[2] = ChainLen + 1
  /\ function_[1] = Zero
  /\ function_[2] = Inc
  /\ Drove(1, <<<<"onSubscribe", Source>>, <<"onSuccess", 1>>>>)
  /\ Drove(2, <<<<"onSubscribe", Source>>, <<"onSuccess", 1>>>>)
  /\ conLog[1] = <<<<"onSubscribe", 2>>, <<"onSuccess", Inc[Zero[1]]>>>>
  /\ conLog[2] = <<<<"onSubscribe", 3>>, <<"onSuccess", Inc[Zero[1]]>>>>
  /\ Inc[Zero[1]] # Zero[Inc[1]]

\* C10: subscribe(observer) on the FromPublisherOperator invokes the stored
\* callback exactly once, with that observer, and calls nothing on the
\* observer itself: the observer sees exactly the calls the callback makes.
C10_SourceAdapter ==
  \A s \in Subs :
    target[s] # Null =>
      /\ cbCalls[s] = <<IF target[s] = Source
                          THEN FinalObserver
                          ELSE CHOOSE k \in Built(s) : upstream_[k] = Source>>
      /\ target[s] = Source => conLog[s] = SourceCalls(s)

C10_Witness ==
  /\ target[1] = Source
  /\ cbCalls[1] = <<FinalObserver>>
  /\ calls[1] = <<<<"onSubscribe", Source>>, <<"onSuccess", 1>>>>
  /\ conLog[1] = <<<<"onSubscribe", Source>>, <<"onSuccess", 1>>>>

\* C11: cancel() is idempotent: when the observer calls cancel() one or more
\* times after onSubscribe and before any terminal event, cancel() reaches the
\* source's handle exactly once for the subscription.
C11_CancelIdempotent ==
  \A s \in Subs :
    ( /\ target[s] \in Stages
      /\ kind[s] = "plain"
      /\ calls[s] # <<>>
      /\ calls[s][1] = <<"onSubscribe", Source>>
      /\ Terminals(calls[s]) = <<>>
      /\ Cancels(s) >= 1 )
      => srcCancels[s] = 1

\* The entries of the trace of s that the step has added.
Added(s) == SubSeq(trace'[s], Len(trace[s]) + 1, Len(trace'[s]))

\* C12: a cancel() call on the Bridge only forwards cancel() upstream: during
\* it the final observer receives nothing (no onSubscribe, onSuccess or
\* onError), and no method other than cancel() is entered anywhere.
C12_CancelSilent ==
  [][\A s \in Subs :
       (calls'[s] = Append(calls[s], <<"cancel", 0>>))
         => /\ conLog'[s] = conLog[s]
            /\ \A i \in 1..Len(Added(s)) : Added(s)[i][1] = "cancel"]_vars

C12_Witness ==
  /\ target[1] = 2
  /\ calls[1] = <<<<"onSubscribe", Source>>, <<"cancel", 0>>>>
  /\ conLog[1] = <<<<"onSubscribe", 2>>>>
  /\ srcCancels[1] = 1

\* C13: once a terminal event has been delivered or cancel() has been called,
\* no Bridge that is still alive holds a reference to its downstream observer.
C13_SubscriberReleased ==
  \A s \in Subs :
    ( /\ ~crashed
      /\ Idle(s)
      /\ target[s] \in Stages
      /\ calls[s] # <<>>
      /\ calls[s][1] = <<"onSubscribe", Source>>
      /\ calls[s][Len(calls[s])][1] \in TerminalMethods \cup {"cancel"} )
      => \A k \in Built(s) : bridges[s][k].subscriber_ = Null

\* Subscription s has ended: a terminal event or a cancel() was called.
Ended(s) == \E i \in 1..Len(calls[s]) : calls[s][i][1] \in TerminalMethods \cup {"cancel"}

\* C14: no leak through the reference cycle: when a subscription has ended by
\* success, error or cancel and both the producer and the final observer have
\* dropped their own references, every Bridge has been destroyed.
C14_NoLeak ==
  \A s \in Subs :
    ( /\ ~crashed
      /\ Idle(s)
      /\ target[s] \in Stages
      /\ calls[s] # <<>>
      /\ calls[s][1] = <<"onSubscribe", Source>>
      /\ Ended(s)
      /\ dropped[s] = {"P", "C"}
      /\ conHandle[s] = Null )
      => Built(s) = {}

\* C15: onSubscribe stores the upstream handle before it calls the downstream
\* onSubscribe, and passes the Bridge itself as the handle: when the final
\* observer calls cancel() on the handle it is given, inside its onSubscribe,
\* that cancel() reaches the source's handle, through no empty handle.
C15_StoreThenNotify ==
  \A s \in Subs :
    ( /\ target[s] \in Stages
      /\ kind[s] = "reentrant"
      /\ calls[s] = <<<<"onSubscribe", Source>>>> )
      => /\ conLog[s] = <<<<"onSubscribe", target[s]>>>>
         /\ srcCancels[s] = 1
         /\ ~nullDeref[s]
         /\ \A k \in Built(s) :
              /\ bridges[s][k].upstreamSubscription_ = upstream_[k]
              /\ FirstIdx(trace[s], LAMBDA e : e = <<"store", k, upstream_[k]>>)
                   < FirstIdx(trace[s],
                              LAMBDA e : e = <<"onSubscribe", bridges[s][k].subscriber_, k>>)

C15_Witness ==
  /\ target[1] = 2
  /\ kind[1] = "reentrant"
  /\ calls[1] = <<<<"onSubscribe", Source>>>>
  /\ srcCancels[1] = 1
  /\ conHandle[1] = 2

RECURSIVE Path(_)
\* The stages from k inwards, the source last.
Path(k) == IF k = Source THEN <<Source>> ELSE <<k>> \o Path(upstream_[k])

\* C16: in source.map(f).map(g), when the final observer calls cancel() after
\* onSubscribe and before any terminal event, the cancel() is forwarded hop by
\* hop, the outer Bridge, then the inner Bridge, then the source's handle,
\* which it reaches exactly once; no onSuccess or onError is delivered.
C16_CancelHopByHop ==
  \A s \in Subs :
    ( /\ target[s] \in Stages
      /\ Drove(s, <<<<"onSubscribe", Source>>, <<"cancel", 0>>>>) )
      => /\ srcCancels[s] = 1
         /\ Terminals(conLog[s]) = <<>>
         /\ Terminals(trace[s]) = <<>>
         /\ SelectSeq(trace[s], IsCancel)
              = [i \in 1..Len(Path(target[s])) |-> <<"cancel", Path(target[s])[i], 0>>]

C16_Witness ==
  /\ target[1] = 2
  /\ Drove(1, <<<<"onSubscribe", Source>>, <<"cancel", 0>>>>)
  /\ SelectSeq(trace[1], IsCancel)
       = <<<<"cancel", 2, 0>>, <<"cancel", 1, 0>>, <<"cancel", Source, 0>>>>

\* What belongs to subscription s: its Bridges and what they have delivered.
Own(s) ==
  <<bridges[s], conLog[s], conHandle[s], cbCalls[s], srcCancels[s], trace[s]>>

\* C17: each subscribe() on a map stage is independent: it builds one new
\* Bridge per stage, subscribes it upstream exactly once and leaves the stages
\* (upstream_, function_) as they were; with two observers subscribed to the
\* same stage, a subscribe, a terminal event or a cancel on one subscription
\* leaves the other's Bridges and everything they have delivered unchanged.
C17_Independent ==
  [][/\ upstream_' = upstream_
     /\ function_' = function_
     /\ \A s \in {1, 2} :
          /\ (calls'[s] = calls[s] /\ target'[s] = target[s]) => Own(s)' = Own(s)
          /\ (target[s] = Null /\ target'[s] \in Stages)
               => LET p == Path(target'[s])
                  IN  /\ SelectSeq(trace'[s], IsNew)
                           = [i \in 1..(Len(p) - 1) |->
                                <<"new", p[i], IF i = 1 THEN FinalObserver ELSE p[i - 1]>>]
                      /\ SelectSeq(trace'[s], IsSubscribe)
                           = [i \in 1..Len(p) |->
                                <<"subscribe", p[i],
                                  IF i = 1 THEN FinalObserver ELSE p[i - 1]>>]
                      /\ Len(cbCalls'[s]) = 1]_vars

C17_Witness ==
  /\ target[1] = 2
  /\ target[2] = 2
  /\ calls[1] = <<<<"onSubscribe", Source>>, <<"onSuccess", 1>>>>
  /\ calls[2] = <<>>
  /\ Terminals(conLog[1]) # <<>>
  /\ bridges[1][2].upstreamSubscription_ = Null
  /\ bridges[2][1] = [flowable_ |-> 1, subscriber_ |-> 2, upstreamSubscription_ |-> Null]
  /\ bridges[2][2] = [flowable_ |-> 2, subscriber_ |-> FinalObserver,
                      upstreamSubscription_ |-> Null]
  /\ conLog[2] = <<>>

\* The observers of subscription s from the innermost Bridge outwards, the
\* final observer last.
Consumers(s) ==
  LET p == Path(target[s])
      n == Len(p) - 1
  IN  [i \in 1..(n + 1) |-> IF i = n + 1 THEN FinalObserver ELSE p[n + 1 - i]]

\* C18: in a chain of n map stages whose source fails with e, the error passes
\* every Bridge exactly once and unmodified, one hop at a time; the final
\* observer receives exactly one onError(e); nothing is subscribed again and no
\* transform is invoked.
C18_ErrorThroughChain ==
  \A s \in Subs, e \in Errs :
    ( /\ target[s] \in Stages
      /\ Drove(s, <<<<"onSubscribe", Source>>, <<"onError", e>>>>) )
      => /\ Terminals(trace[s])
              = [i \in 1..Len(Consumers(s)) |-> <<"onError", Consumers(s)[i], e>>]
         /\ Terminals(conLog[s]) = <<<<"onError", e>>>>
         /\ SelectSeq(trace[s], IsApply) = <<>>
         /\ Len(SelectSeq(trace[s], IsSubscribe)) = Len(Path(target[s]))
         /\ Len(cbCalls[s]) = 1

C18_Witness ==
  /\ target[1] = 2
  /\ Drove(1, <<<<"onSubscribe", Source>>, <<"onError", 1>>>>)
  /\ Terminals(trace[1]) = <<<<"onError", 1, 1>>, <<"onError", 2, 1>>,
                             <<"onError", FinalObserver, 1>>>>

\* C19: subscription is top-down and events are bottom-up: subscribing to the
\* outermost of n map stages subscribes inwards stage by stage and reaches the
\* source's subscribe exactly once, with the innermost Bridge as its observer,
\* before any onSubscribe or terminal event is delivered; the source's
\* onSubscribe and its terminal event then pass the Bridges from the innermost
\* to the outermost and reach the final observer last.
C19_DownThenUp ==
  \A s \in Subs :
    (target[s] \in Stages)
      => LET tr == trace[s]
             p == Path(target[s])
             subs == SelectSeq(tr, IsSubscribe)
             terms == Terminals(tr)
             ons == SelectSeq(tr, LAMBDA e : e[1] = "onSubscribe")
         IN  /\ subs = [i \in 1..Len(p) |->
                          <<"subscribe", p[i], IF i = 1 THEN FinalObserver ELSE p[i - 1]>>]
             /\ cbCalls[s] = <<p[Len(p) - 1]>>
             /\ \A i \in FirstIdx(tr, LAMBDA e : e[1] \in TerminalMethods \cup {"onSubscribe"})
                          ..Len(tr) : ~IsSubscribe(tr[i])
             /\ (kind[s] = "plain" /\ Len(calls[s]) = 2
                 /\ calls[s][1] = <<"onSubscribe", Source>>
                 /\ IsTerminal(calls[s][2]))
                  => /\ [i \in 1..Len(terms) |-> terms[i][2]] = Consumers(s)
                     /\ [i \in 1..Len(ons) |-> ons[i][2]] = Consumers(s)

C19_Witness ==
  /\ target[1] = 2
  /\ Drove(1, <<<<"onSubscribe", Source>>, <<"onSuccess", 1>>>>)
  /\ SelectSeq(trace[1], IsSubscribe)
       = <<<<"subscribe", 2, FinalObserver>>, <<"subscribe", 1, 2>>,
           <<"subscribe", Source, 1>>>>
  /\ cbCalls[1] = <<1>>
  /\ conLog[1][2][1] = "onSuccess"

\* C20: cancel() never calls through an empty upstream handle, also after the
\* Bridge has delivered onSuccess or onError and reset the handle.
C20_CancelNeverNull == \A s \in Subs : ~nullDeref[s]

====
